---- MODULE Spec2Model ----
(***************************************************************************)
(* Model of Notebooks/BlackScholesMerton.ipynb: the closed-form            *)
(* Black-Scholes-Merton call pricer, the two delta functions, the          *)
(* terminal-sum binomial pricer and the convergence cell that drives it.   *)
(*                                                                         *)
(* Numbers.  A Python/numpy double is modelled as a record                 *)
(*   [k |-> "fin", v |-> n]   the finite value n / SC  (fixed point),      *)
(*   [k |-> "nan"], [k |-> "pinf"], [k |-> "ninf"]  (IEEE specials).       *)
(* numpy arithmetic never raises: x/0 is +-inf or nan, log(0) is -inf,     *)
(* log(x<0) and sqrt(x<0) are nan.  The "/" of two Python floats (or of a  *)
(* Python float and an int) raises ZeroDivisionError on a zero divisor.    *)
(***************************************************************************)
EXTENDS Integers, Sequences, FiniteSets, TLC

\* Fixed-point scale: one unit is 1e-6.
SC == 1000 * 1000

NaN  == [k |-> "nan",  v |-> 0]
PInf == [k |-> "pinf", v |-> 0]
NInf == [k |-> "ninf", v |-> 0]
Fin(n) == [k |-> "fin", v |-> n]

IsFin(x) == x.k = "fin"
IsInf(x) == x.k \in {"pinf", "ninf"}

Abs(n) == IF n < 0 THEN -n ELSE n
Sgn(n) == IF n < 0 THEN -1 ELSE IF n > 0 THEN 1 ELSE 0

\* sign of a non-nan double: -1, 0, 1
FSign(x) == CASE x.k = "pinf" -> 1 [] x.k = "ninf" -> -1 [] OTHER -> Sgn(x.v)

InfOfSign(s) == IF s > 0 THEN PInf ELSE NInf

(***************************************************************************)
(* Scaled-integer kernels (round toward zero).  The products are split so  *)
(* that every intermediate stays inside TLC's 32-bit integers.             *)
(***************************************************************************)
MulMag(a, b) ==
    LET ah == a \div 1000
        al == a % 1000
        bh == b \div 1000
        bl == b % 1000
        t  == ah * bl + al * bh
    IN  ah * bh + (t \div 1000) + (((t % 1000) * 1000 + al * bl) \div SC)

MulI(a, b) == Sgn(a) * Sgn(b) * MulMag(Abs(a), Abs(b))

RECURSIVE DivDigits(_, _, _)
DivDigits(r, b, place) ==
    IF place = 0 THEN 0
    ELSE LET x == r * 10
         IN  (x \div b) * place + DivDigits(x % b, b, place \div 10)

\* a / b for b # 0, scaled
DivI(a, b) ==
    LET n == Abs(a)
        m == Abs(b)
    IN  Sgn(a) * Sgn(b) * ((n \div m) * SC + DivDigits(n % m, m, SC \div 10))

RECURSIVE ExpSeries(_, _, _)
ExpSeries(x, term, j) ==
    IF term = 0 \/ j > 14 THEN 0
    ELSE term + ExpSeries(x, MulI(term, x) \div j, j + 1)

RECURSIVE ExpI(_)
ExpI(x) ==
    IF 2 * Abs(x) > SC
    THEN LET half == ExpI(x \div 2)
             sq   == MulI(half, half)
         IN  IF x % 2 = 0 THEN sq ELSE sq + (sq \div SC)
    ELSE ExpSeries(x, SC, 1)

RECURSIVE AtanhSeries(_, _, _)
AtanhSeries(z2, pw, j) ==
    IF pw = 0 \/ j > 21 THEN 0
    ELSE (pw \div j) + AtanhSeries(z2, MulI(pw, z2), j + 2)

RECURSIVE LnI(_)
\* natural logarithm of x > 0
LnI(x) ==
    IF x > 2 * SC THEN LnI(x \div 2) + 693147
    ELSE IF 2 * x < SC THEN LnI(2 * x) - 693147
    ELSE LET z == DivI(x - SC, x + SC)
         IN  2 * AtanhSeries(MulI(z, z), z, 1)

RECURSIVE ISqrt(_)
ISqrt(n) ==
    IF n < 2 THEN n
    ELSE LET s == 2 * ISqrt(n \div 4)
         IN  IF (s + 1) * (s + 1) <= n THEN s + 1 ELSE s

RECURSIVE Newton(_, _, _)
Newton(x, g, j) ==
    IF j = 0 THEN g ELSE Newton(x, (g + DivI(x, g)) \div 2, j - 1)

\* square root of x >= 0
SqrtI(x) == IF x = 0 THEN 0 ELSE Newton(x, (ISqrt(x) + 1) * 1000, 4)

(***************************************************************************)
(* IEEE arithmetic on doubles.  The model has a single zero (no -0.0).     *)
(***************************************************************************)
FNeg(x) ==
    CASE x.k = "fin"  -> Fin(-x.v)
      [] x.k = "pinf" -> NInf
      [] x.k = "ninf" -> PInf
      [] OTHER        -> NaN

FAdd(x, y) ==
    CASE x.k = "nan" \/ y.k = "nan"   -> NaN
      [] IsFin(x) /\ IsFin(y)         -> Fin(x.v + y.v)
      [] IsInf(x) /\ IsInf(y)         -> IF x.k = y.k THEN x ELSE NaN
      [] IsInf(x)                     -> x
      [] OTHER                        -> y

FSub(x, y) == FAdd(x, FNeg(y))

FMul(x, y) ==
    CASE x.k = "nan" \/ y.k = "nan"   -> NaN
      [] IsFin(x) /\ IsFin(y)         -> Fin(MulI(x.v, y.v))
      [] FSign(x) = 0 \/ FSign(y) = 0 -> NaN
      [] OTHER                        -> InfOfSign(FSign(x) * FSign(y))

\* numpy true division: a zero divisor gives +-inf or nan (with a warning), never an exception
FDiv(x, y) ==
    CASE x.k = "nan" \/ y.k = "nan"   -> NaN
      [] IsInf(x) /\ IsInf(y)         -> NaN
      [] IsInf(y)                     -> Fin(0)
      [] IsInf(x)                     -> InfOfSign(FSign(x) * (IF FSign(y) < 0 THEN -1 ELSE 1))
      [] y.v = 0                      -> IF x.v = 0 THEN NaN ELSE InfOfSign(Sgn(x.v))
      [] OTHER                        -> Fin(DivI(x.v, y.v))

\* x < y and x <= y on doubles: every comparison with nan is false
FLt(x, y) ==
    CASE x.k = "nan" \/ y.k = "nan"   -> FALSE
      [] IsFin(x) /\ IsFin(y)         -> x.v < y.v
      [] OTHER                        -> x.k # y.k /\ (x.k = "ninf" \/ y.k = "pinf")

FLe(x, y) ==
    CASE x.k = "nan" \/ y.k = "nan"   -> FALSE
      [] IsFin(x) /\ IsFin(y)         -> x.v <= y.v
      [] OTHER                        -> x.k = y.k \/ x.k = "ninf" \/ y.k = "pinf"

(***************************************************************************)
(* Library primitives (numpy, scipy.stats), by their documented behaviour. *)
(***************************************************************************)
NpLog(x) ==
    CASE x.k = "nan" \/ x.k = "ninf"  -> NaN
      [] x.k = "pinf"                 -> PInf
      [] x.v < 0                      -> NaN
      [] x.v = 0                      -> NInf
      [] OTHER                        -> Fin(LnI(x.v))

NpSqrt(x) ==
    CASE x.k = "nan" \/ x.k = "ninf"  -> NaN
      [] x.k = "pinf"                 -> PInf
      [] x.v < 0                      -> NaN
      [] OTHER                        -> Fin(SqrtI(x.v))

NpExp(x) ==
    CASE x.k = "nan"                  -> NaN
      [] x.k = "pinf"                 -> PInf
      [] x.k = "ninf"                 -> Fin(0)
      [] x.v < -20 * SC               -> Fin(0)
      [] OTHER                        -> Fin(ExpI(x.v))

NpMaximum(x, y) ==
    CASE x.k = "nan" \/ y.k = "nan"   -> NaN
      [] FLt(x, y)                    -> y
      [] OTHER                        -> x

\* standard normal CDF of a finite x >= 0 (Abramowitz-Stegun 26.2.17)
CdfPos(x) ==
    IF x >= 8 * SC THEN SC
    ELSE LET t   == DivI(SC, SC + MulI(231642, x))
             pdf == MulI(398942, ExpI(-(MulI(x, x) \div 2)))
             pol == MulI(t, 319382 + MulI(t, -356564 + MulI(t, 1781478
                        + MulI(t, -1821256 + MulI(t, 1330274)))))
             c   == SC - MulI(pdf, pol)
         IN  IF c > SC THEN SC ELSE IF c < 0 THEN 0 ELSE c

NormCdf(x) ==
    CASE x.k = "nan"                  -> NaN
      [] x.k = "pinf"                 -> Fin(SC)
      [] x.k = "ninf"                 -> Fin(0)
      [] x.v >= 0                     -> Fin(CdfPos(x.v))
      [] OTHER                        -> Fin(SC - CdfPos(-x.v))

RECURSIVE Choose(_, _)
Choose(n, j) == IF j = 0 \/ j = n THEN 1 ELSE Choose(n - 1, j - 1) + Choose(n - 1, j)

RECURSIVE PowI(_, _)
PowI(x, e) == IF e = 0 THEN SC ELSE MulI(PowI(x, e - 1), x)

\* x ** e for an int e >= 0; pow(x, 0) is 1.0 for every x, nan included
RECURSIVE FPow(_, _)
FPow(x, e) == IF e = 0 THEN Fin(SC) ELSE FMul(FPow(x, e - 1), x)

\* scipy.stats.binom.pmf(j, n, p): nan for invalid arguments, 0 outside the support
BinomPmf(j, n, p) ==
    CASE ~IsFin(p)                    -> NaN
      [] p.v < 0 \/ p.v > SC \/ n < 0 -> NaN
      [] j < 0 \/ j > n               -> Fin(0)
      [] OTHER                        -> Fin(Choose(n, j) * MulI(PowI(p.v, j), PowI(SC - p.v, n - j)))

\* "{x:0.4f}": the value rounded to four decimals
Fmt4(x) ==
    IF IsFin(x) THEN Fin(Sgn(x.v) * (((Abs(x.v) + 50) \div 100) * 100)) ELSE x

(***************************************************************************)
(* Outcomes of a call.                                                     *)
(***************************************************************************)
Return(x) == [kind |-> "return", val |-> x]
Raise(e)  == [kind |-> "raise", exc |-> e]
Returned(o) == o.kind = "return"

(***************************************************************************)
(* State of the notebook kernel.                                           *)
(***************************************************************************)
VARIABLES
    g,       \* the notebook's global names: spot, strike, vol, rate, expiry, div, callPrc, N, i, nsteps
    pc,      \* "idle", "bp_loop", "bp_ret", "fn_ret", "raised", "drv_loop"
    caller,  \* who called the running function: "top" (a direct call) or "drv" (the convergence cell)
    fr,      \* local names of the running (or just returned) function
    ret,     \* outcome of the call that just ended
    out,     \* what the running cell has written to its output so far
    it,      \* position of the convergence cell's range iterator
    memo     \* history: one completed pricing call, kept to compare later calls with

vars == <<g, pc, caller, fr, ret, out, it, memo>>

\* Bounds of the model.
MaxN == 3
MaxLen == 2

(***************************************************************************)
(* Inputs.                                                                 *)
(***************************************************************************)
Params(spot, strike, vol, rate, expiry, div) ==
    [spot |-> Fin(spot), strike |-> Fin(strike), vol |-> Fin(vol),
     rate |-> Fin(rate), expiry |-> Fin(expiry), div |-> Fin(div)]

\* the data of the analytic cell: spot 41.0, strike 40.0, vol 0.30, rate 0.08, expiry 0.25, div 0.0
RefData == Params(41000000, 40000000, 300000, 80000, 250000, 0)
\* the data of the delta cell: spot 40.0, tau 91/365
GreekData == Params(40000000, 40000000, 300000, 80000, 249315, 0)
\* the same option on a stock paying a 2% dividend yield
DivData == Params(41000000, 40000000, 300000, 80000, 250000, 20000)

ValidParams == {RefData, GreekData, DivData}

\* the two data sets the notebook itself uses
ProbeParams == {RefData, GreekData}

InvalidParams ==
    { [RefData EXCEPT !.vol = Fin(0)],
      [RefData EXCEPT !.expiry = Fin(0)],
      [RefData EXCEPT !.spot = Fin(0)],
      [RefData EXCEPT !.strike = Fin(0)],
      [RefData EXCEPT !.spot = Fin(-41000000)],
      [RefData EXCEPT !.strike = Fin(-40000000)],
      [RefData EXCEPT !.vol = Fin(-300000)],
      [RefData EXCEPT !.expiry = Fin(-250000)] }

ParamSets == ValidParams \cup InvalidParams

IsValid(p) == p.spot.v > 0 /\ p.strike.v > 0 /\ p.vol.v > 0 /\ p.expiry.v > 0

Payoffs == {"callPayoff", "putPayoff"}
StepCounts == (0 - 1) .. MaxN

\* argument lists of binomialPricer(S, K, r, v, q, T, n, payoff, verbose)
BinArgs(p, n, payoff, verbose) ==
    [S |-> p.spot, K |-> p.strike, r |-> p.rate, v |-> p.vol, q |-> p.div,
     T |-> p.expiry, n |-> n, payoff |-> payoff, verbose |-> verbose]

(***************************************************************************)
(* The payoff functions.                                                   *)
(***************************************************************************)
callPayoff(spot, strike) == NpMaximum(FSub(spot, strike), Fin(0))

putPayoff(spot, strike) == NpMaximum(FSub(strike, spot), Fin(0))

ApplyPayoff(name, spot, strike) ==
    IF name = "callPayoff" THEN callPayoff(spot, strike) ELSE putPayoff(spot, strike)

(***************************************************************************)
(* blackScholesCall.  "spot / strike" divides two Python floats, so a zero *)
(* strike raises ZeroDivisionError; the division by vol * np.sqrt(expiry)  *)
(* is numpy's and never raises.                                            *)
(***************************************************************************)
blackScholesCall_d1(p) ==
    FDiv(FAdd(NpLog(Fin(DivI(p.spot.v, p.strike.v))),
              FMul(FAdd(FSub(p.rate, p.div), FMul(FMul(Fin(SC \div 2), p.vol), p.vol)), p.expiry)),
         FMul(p.vol, NpSqrt(p.expiry)))

blackScholesCall_locals(p) ==
    LET d1 == blackScholesCall_d1(p)
        d2 == FSub(d1, FMul(p.vol, NpSqrt(p.expiry)))
        callPrc == FSub(FMul(FMul(p.spot, NpExp(FMul(FNeg(p.div), p.expiry))), NormCdf(d1)),
                        FMul(FMul(p.strike, NpExp(FMul(FNeg(p.rate), p.expiry))), NormCdf(d2)))
    IN  [fn |-> "blackScholesCall", args |-> p, d1 |-> d1, d2 |-> d2, callPrc |-> callPrc,
         d1Evals |-> 1]

blackScholesCall(p) ==
    IF p.strike.v = 0 THEN Raise("ZeroDivisionError")
    ELSE Return(blackScholesCall_locals(p).callPrc)

(***************************************************************************)
(* bsmCallDelta and bsmPutDelta.                                           *)
(***************************************************************************)
bsmCallDelta_d1(p) ==
    FDiv(FAdd(NpLog(Fin(DivI(p.spot.v, p.strike.v))),
              FMul(FAdd(FSub(p.rate, p.div), FMul(FMul(Fin(SC \div 2), p.vol), p.vol)), p.expiry)),
         FMul(p.vol, NpSqrt(p.expiry)))

bsmCallDelta_locals(p) ==
    LET d1 == bsmCallDelta_d1(p)
        delta == FMul(NpExp(FMul(FNeg(p.div), p.expiry)), NormCdf(d1))
    IN  [fn |-> "bsmCallDelta", args |-> p, d1 |-> d1, delta |-> delta, d1Evals |-> 1]

bsmCallDelta(p) ==
    IF p.strike.v = 0 THEN Raise("ZeroDivisionError")
    ELSE Return(bsmCallDelta_locals(p).delta)

\* variant: the dividend yield is left out of the drift
bsmPutDelta_d1_nodiv(p) ==
    FDiv(FAdd(NpLog(Fin(DivI(p.spot.v, p.strike.v))),
              FMul(FAdd(p.rate, FMul(FMul(Fin(SC \div 2), p.vol), p.vol)), p.expiry)),
         FMul(p.vol, NpSqrt(p.expiry)))

bsmPutDelta_d1(p) ==
    FDiv(FAdd(NpLog(Fin(DivI(p.spot.v, p.strike.v))),
              FMul(FAdd(FSub(p.rate, p.div), FMul(FMul(Fin(SC \div 2), p.vol), p.vol)), p.expiry)),
         FMul(p.vol, NpSqrt(p.expiry)))

bsmPutDelta_locals(p) ==
    LET d1 == bsmPutDelta_d1(p)
        delta == FMul(NpExp(FMul(FNeg(p.div), p.expiry)), NormCdf(FNeg(d1)))
    IN  [fn |-> "bsmPutDelta", args |-> p, d1 |-> d1, delta |-> delta, d1Evals |-> 1]

bsmPutDelta(p) ==
    IF p.strike.v = 0 THEN Raise("ZeroDivisionError")
    ELSE Return(bsmPutDelta_locals(p).delta)

(***************************************************************************)
(* binomialPricer, statement by statement.  The frame holds the locals;    *)
(* iter is the position of the range(nodes) iterator, and visited, poArgs  *)
(* and discounts record what the loop did (the indices i took, the         *)
(* arguments of each payoff call, the number of times price was            *)
(* discounted).                                                            *)
(***************************************************************************)
NoFrame == [fn |-> "none"]
NoRet == [kind |-> "none"]
NoMemo == [fn |-> "none"]

\* T / n for a Python float T and an int n # 0
PyDivInt(x, n) == Fin(Sgn(x.v) * Sgn(n) * (Abs(x.v) \div Abs(n)))

\* nodes = n + 1 ... price = 0.0 : the statements before the loop (n # 0)
binomialPricer_enter(a) ==
    LET h     == PyDivInt(a.T, a.n)
        drift == FMul(FSub(a.r, a.q), h)
        diff  == FMul(a.v, NpSqrt(h))
        u     == NpExp(FAdd(drift, diff))
        d     == NpExp(FSub(drift, diff))
        pstar == FDiv(FSub(NpExp(drift), d), FSub(u, d))
    IN  [fn |-> "binomialPricer", a |-> a, nodes |-> a.n + 1, h |-> h, u |-> u, d |-> d,
         pstar |-> pstar, price |-> Fin(0), iter |-> 0,
         visited |-> <<>>, poArgs |-> <<>>, discounts |-> 0]

\* the frame when h = T / n has raised: only the arguments and nodes are bound
binomialPricer_raised(a) == [fn |-> "binomialPricer", a |-> a, nodes |-> a.n + 1]

\* variant: the line reads the notebook's global spot instead of the parameter S
TerminalSpot_global(f, j) == FMul(FMul(g.spot, FPow(f.u, j)), FPow(f.d, f.a.n - j))

\* spotT = S * (u ** i) * (d ** (n - i))
TerminalSpot(f, j) == FMul(FMul(f.a.S, FPow(f.u, j)), FPow(f.d, f.a.n - j))

\* prob = binom.pmf(i, n, pstar)
NodeProb(f, j) == BinomPmf(j, f.a.n, f.pstar)

\* variant: the loop runs over range(n), one node short
RangeNodes_short(f) == [j \in 1 .. (IF f.a.n > 0 THEN f.a.n ELSE 0) |-> j - 1]

\* the indices range(nodes) yields, in order
RangeNodes(f) == [j \in 1 .. (IF f.nodes > 0 THEN f.nodes ELSE 0) |-> j - 1]

\* one pass through the loop body, for the next index of range(nodes)
binomialPricer_node(f) ==
    LET j     == RangeNodes(f)[f.iter + 1]
        prob  == NodeProb(f, j)
        spotT == TerminalSpot(f, j)
        po    == ApplyPayoff(f.a.payoff, spotT, f.a.K)
    IN  [f EXCEPT !.price = FAdd(f.price, FMul(po, prob)),
                  !.iter = f.iter + 1,
                  !.visited = Append(f.visited, j),
                  !.poArgs = Append(f.poArgs, <<spotT, f.a.K>>)]

\* the line the loop body prints when verbose
NodeLine(f) ==
    LET j     == RangeNodes(f)[f.iter + 1]
        spotT == TerminalSpot(f, j)
    IN  <<Fmt4(spotT), Fmt4(ApplyPayoff(f.a.payoff, spotT, f.a.K)), Fmt4(NodeProb(f, j))>>

\* price *= np.exp(-r * T)
binomialPricer_discount(f) ==
    [f EXCEPT !.price = FMul(f.price, NpExp(FMul(FNeg(f.a.r), f.a.T))),
              !.discounts = f.discounts + 1]

RECURSIVE RunNodes(_)
RunNodes(f) == IF f.iter < Len(RangeNodes(f)) THEN RunNodes(binomialPricer_node(f)) ELSE f

\* the whole call, from its arguments to its outcome
binomialPricer(a) ==
    IF a.n = 0 THEN Raise("ZeroDivisionError")
    ELSE Return(binomialPricer_discount(RunNodes(binomialPricer_enter(a))).price)

(***************************************************************************)
(* The notebook's globals.                                                 *)
(***************************************************************************)
GlobalsOf(p, c) ==
    [spot |-> p.spot, strike |-> p.strike, vol |-> p.vol, rate |-> p.rate,
     expiry |-> p.expiry, div |-> p.div, callPrc |-> c]

ParamsOf(glb) ==
    [spot |-> glb.spot, strike |-> glb.strike, vol |-> glb.vol, rate |-> glb.rate,
     expiry |-> glb.expiry, div |-> glb.div]

\* binomialPricer(spot, strike, rate, vol, div, expiry, nsteps, callPayoff, verbose=False)
DriverArgs(glb, nsteps) == BinArgs(ParamsOf(glb), nsteps, "callPayoff", FALSE)

\* the kernel once the analytic cell has run on its data
Init ==
    /\ g = GlobalsOf(RefData, blackScholesCall(RefData).val)
    /\ pc = "idle"
    /\ caller = "top"
    /\ fr = NoFrame
    /\ ret = NoRet
    /\ out = <<>>
    /\ it = 0
    /\ memo = NoMemo

(***************************************************************************)
(* Direct calls of the four functions.                                     *)
(***************************************************************************)
\* binomialPricer(...) is called: h = T / n raises for n = 0, otherwise the loop starts
CallBinomial(a) ==
    /\ pc = "idle"
    /\ caller' = "top"
    /\ out' = <<>>
    /\ IF a.n = 0
       THEN /\ pc' = "raised"
            /\ ret' = Raise("ZeroDivisionError")
            /\ fr' = binomialPricer_raised(a)
       ELSE /\ pc' = "bp_loop"
            /\ ret' = NoRet
            /\ fr' = binomialPricer_enter(a)
    /\ UNCHANGED <<g, it, memo>>

\* for i in range(nodes): one iteration
BPNode ==
    /\ pc = "bp_loop"
    /\ fr.iter < Len(RangeNodes(fr))
    /\ fr' = binomialPricer_node(fr)
    /\ out' = IF fr.a.verbose THEN Append(out, NodeLine(fr)) ELSE out
    /\ UNCHANGED <<g, pc, caller, ret, it, memo>>

\* the loop is exhausted: discount and return
BPReturn ==
    /\ pc = "bp_loop"
    /\ fr.iter >= Len(RangeNodes(fr))
    /\ fr' = binomialPricer_discount(fr)
    /\ ret' = Return(fr'.price)
    /\ pc' = "bp_ret"
    /\ UNCHANGED <<g, caller, out, it, memo>>

\* blackScholesCall(...) is called and runs to its return (or to the exception)
CallBlackScholes(p) ==
    /\ pc = "idle"
    /\ caller' = "top"
    /\ out' = <<>>
    /\ ret' = blackScholesCall(p)
    /\ pc' = IF Returned(ret') THEN "fn_ret" ELSE "raised"
    /\ fr' = IF Returned(ret') THEN blackScholesCall_locals(p)
             ELSE [fn |-> "blackScholesCall", args |-> p]
    /\ UNCHANGED <<g, it, memo>>

\* bsmCallDelta(...) is called and runs to its return (or to the exception)
CallCallDelta(p) ==
    /\ pc = "idle"
    /\ caller' = "top"
    /\ out' = <<>>
    /\ ret' = bsmCallDelta(p)
    /\ pc' = IF Returned(ret') THEN "fn_ret" ELSE "raised"
    /\ fr' = IF Returned(ret') THEN bsmCallDelta_locals(p)
             ELSE [fn |-> "bsmCallDelta", args |-> p]
    /\ UNCHANGED <<g, it, memo>>

\* bsmPutDelta(...) is called and runs to its return (or to the exception)
CallPutDelta(p) ==
    /\ pc = "idle"
    /\ caller' = "top"
    /\ out' = <<>>
    /\ ret' = bsmPutDelta(p)
    /\ pc' = IF Returned(ret') THEN "fn_ret" ELSE "raised"
    /\ fr' = IF Returned(ret') THEN bsmPutDelta_locals(p)
             ELSE [fn |-> "bsmPutDelta", args |-> p]
    /\ UNCHANGED <<g, it, memo>>

\* the pricing arguments of the call in frame f (everything but verbose)
KeyOf(f) == IF f.fn = "binomialPricer" THEN [f.a EXCEPT !.verbose = FALSE] ELSE f.args

\* the parameter set of the call in frame f
FrameParams(f) ==
    IF f.fn = "binomialPricer"
    THEN [spot |-> f.a.S, strike |-> f.a.K, vol |-> f.a.v, rate |-> f.a.r,
          expiry |-> f.a.T, div |-> f.a.q]
    ELSE f.args

\* control is back at the top level: the frame is gone
Resume ==
    /\ pc \in {"fn_ret", "raised", "bp_ret"}
    /\ pc = "bp_ret" => caller = "top"
    /\ pc' = "idle"
    /\ caller' = "top"
    /\ fr' = NoFrame
    /\ ret' = NoRet
    /\ out' = <<>>
    /\ it' = 0
    /\ UNCHANGED <<g, memo>>

\* as Resume, and the observer keeps this call to compare later ones with
ResumeRemember ==
    /\ pc \in {"fn_ret", "bp_ret"}
    /\ caller = "top"
    /\ memo' = [fn |-> fr.fn, key |-> KeyOf(fr), ret |-> ret,
                verbose |-> (fr.fn = "binomialPricer" /\ fr.a.verbose), gspot |-> g.spot]
    /\ pc' = "idle"
    /\ fr' = NoFrame
    /\ ret' = NoRet
    /\ out' = <<>>
    /\ UNCHANGED <<g, caller, it>>

(***************************************************************************)
(* The notebook's cells.                                                   *)
(***************************************************************************)
\* the analytic cell, run on (possibly edited) data: six assignments, then callPrc = blackScholesCall(...)
AnalyticCell(p) ==
    /\ pc = "idle"
    /\ g' = [g EXCEPT !.spot = p.spot, !.strike = p.strike, !.vol = p.vol, !.rate = p.rate,
                      !.expiry = p.expiry, !.div = p.div,
                      !.callPrc = blackScholesCall(p).val]
    /\ UNCHANGED <<pc, caller, fr, ret, out, it, memo>>

\* the step counts of the convergence cell
NotebookN == <<10, 25, 50, 75, 100, 125, 150, 175, 200, 500>>

\* what the convergence cell printed when the notebook was last run (on RefData), one line per entry of NotebookN
RecordedOutput ==
    <<3454440, 3408695, 3391797, 3401465, 3404618, 3399357, 3399605, 3402219, 3398287, 3399920>>

\* what the analytic cell displayed when the notebook was last run: 3.3990781872368956
RecordedCallPrc == 3399078

\* variant: what the cell would have printed had the pricer not discounted (price *= exp(-r T) left out)
binomialPricer_recorded_undiscounted(j) ==
    Fin(MulI(RecordedOutput[j], ExpI(MulI(RefData.rate.v, RefData.expiry.v))))

\* the recorded result of binomialPricer for the j-th entry of NotebookN
binomialPricer_recorded(j) == Fin(RecordedOutput[j])

\* variant: a price equal to the one printed last is not printed again
Emit_norepeat(o, x) == IF Len(o) > 0 /\ o[Len(o)] = x THEN o ELSE Append(o, x)

\* print(callPrc)
Emit(o, x) == Append(o, x)

\* N = [...] ; the for statement creates its iterator
DriverStart(Nseq) ==
    /\ pc = "idle"
    /\ Nseq = NotebookN => ParamsOf(g) = RefData
    /\ g' = ("N" :> Nseq) @@ g
    /\ pc' = "drv_loop"
    /\ it' = 0
    /\ out' = <<>>
    /\ UNCHANGED <<caller, fr, ret, memo>>

\* i and nsteps are bound and binomialPricer is called
DriverIter ==
    /\ pc = "drv_loop"
    /\ it < Len(g.N)
    /\ g.N[it + 1] <= MaxN
    /\ LET nsteps == g.N[it + 1]
           a      == DriverArgs(g, nsteps)
       IN  /\ g' = ("i" :> it) @@ ("nsteps" :> nsteps) @@ g
           /\ caller' = "drv"
           /\ IF nsteps = 0
              THEN /\ pc' = "raised"
                   /\ ret' = Raise("ZeroDivisionError")
                   /\ fr' = binomialPricer_raised(a)
              ELSE /\ pc' = "bp_loop"
                   /\ ret' = NoRet
                   /\ fr' = binomialPricer_enter(a)
    /\ UNCHANGED <<out, it, memo>>

\* callPrc = <the returned price> ; print(callPrc)
DriverResume ==
    /\ pc = "bp_ret"
    /\ caller = "drv"
    /\ g' = [g EXCEPT !.callPrc = ret.val]
    /\ out' = Emit(out, ret.val)
    /\ it' = it + 1
    /\ pc' = "drv_loop"
    /\ caller' = "top"
    /\ fr' = NoFrame
    /\ ret' = NoRet
    /\ UNCHANGED memo

\* an iteration of the recorded run: the call's result is the recorded one
DriverIterRecorded ==
    /\ pc = "drv_loop"
    /\ it < Len(g.N)
    /\ g.N[it + 1] > MaxN
    /\ LET c == binomialPricer_recorded(it + 1)
       IN  /\ g' = [("i" :> it) @@ ("nsteps" :> g.N[it + 1]) @@ g EXCEPT !.callPrc = c]
           /\ out' = Emit(out, c)
    /\ it' = it + 1
    /\ UNCHANGED <<pc, caller, fr, ret, memo>>

\* the iterator is exhausted: the cell ends
DriverEnd ==
    /\ pc = "drv_loop"
    /\ it >= Len(g.N)
    /\ pc' = "idle"
    /\ out' = <<>>
    /\ it' = 0
    /\ UNCHANGED <<g, caller, fr, ret, memo>>

(***************************************************************************)
(* Specifications.                                                         *)
(***************************************************************************)
RECURSIVE SeqsUpTo(_, _)
SeqsUpTo(S, n) ==
    IF n = 0 THEN {<<>>}
    ELSE LET shorter == SeqsUpTo(S, n - 1)
         IN  shorter \cup {Append(q, x) : q \in shorter, x \in S}

StepSeqs == SeqsUpTo(StepCounts, MaxLen)

BPStep == BPNode \/ BPReturn

\* the functions, called directly on every input
Next ==
    \/ \E p \in ParamSets, n \in StepCounts, po \in Payoffs, vb \in BOOLEAN :
          CallBinomial(BinArgs(p, n, po, vb))
    \/ \E p \in ParamSets : CallBlackScholes(p)
    \/ \E p \in ParamSets : CallCallDelta(p)
    \/ \E p \in ParamSets : CallPutDelta(p)
    \/ BPStep
    \/ Resume

Spec == Init /\ [][Next]_vars

\* the notebook: the analytic cell and the convergence cell, run in any order on edited data
NextNotebook ==
    \/ \E p \in ValidParams : AnalyticCell(p)
    \/ \E s \in StepSeqs \cup {NotebookN} : DriverStart(s)
    \/ DriverIter
    \/ DriverIterRecorded
    \/ BPStep
    \/ DriverResume
    \/ DriverEnd
    \/ Resume

SpecNotebook == Init /\ [][NextNotebook]_vars

\* pricing calls between which cells run and other calls are made
NextCalls ==
    \/ \E p \in ProbeParams, n \in 1 .. MaxN, po \in Payoffs, vb \in BOOLEAN :
          CallBinomial(BinArgs(p, n, po, vb))
    \/ \E p \in ProbeParams : CallBlackScholes(p)
    \/ \E p \in ProbeParams : AnalyticCell(p)
    \/ \E n \in 1 .. MaxN : DriverStart(<<n>>)
    \/ DriverIter
    \/ BPStep
    \/ DriverResume
    \/ DriverEnd
    \/ Resume
    \/ ResumeRemember

SpecCalls == Init /\ [][NextCalls]_vars

(***************************************************************************)
(* Properties.                                                             *)
(***************************************************************************)
\* a call has just ended, by a return or by an exception
CallEnded == pc \in {"bp_ret", "fn_ret", "raised"}

\* the convergence cell is running (its own statements, or binomialPricer on its behalf)
DriverRunning == pc = "drv_loop" \/ (pc \in {"bp_loop", "bp_ret", "raised"} /\ caller = "drv")

\* C1: a call of blackScholesCall or binomialPricer (on a step count n >= 1) with spot <= 0,
\* strike <= 0, volatility <= 0 or timeToExpiry <= 0 ends in an error and never returns a number.
\* (Any exception is counted as the rejection here; the code has no InvalidParameter error at all.)
C1_InvalidParametersRejected ==
    (/\ CallEnded
     /\ fr.fn \in {"blackScholesCall", "binomialPricer"}
     /\ fr.fn = "binomialPricer" => fr.a.n >= 1
     /\ ~IsValid(FrameParams(fr)))
        => ret.kind = "raise"

\* C2: binomialPricer called (on otherwise valid parameters) with a step count n <= 0 ends in an
\* error and never returns a price.  (Any exception is counted as the rejection; the code has no
\* InvalidLatticeConfiguration error.)
C2_NonPositiveStepsRejected ==
    (CallEnded /\ fr.fn = "binomialPricer" /\ IsValid(FrameParams(fr)) /\ fr.a.n <= 0)
        => ret.kind = "raise"

\* e^((r - q) h) for the frame of binomialPricer
Growth(f) == NpExp(FMul(FSub(f.a.r, f.a.q), f.h))

NoArbitrage(f) ==
    /\ FLt(f.d, Growth(f))
    /\ FLt(Growth(f), f.u)
    /\ FLt(Fin(0), f.pstar)
    /\ FLt(f.pstar, Fin(SC))

\* C3: whenever binomialPricer returns a price (here: on valid spot, strike, volatility and
\* expiry), the u, d and pstar it derived satisfy d < exp((r-q)h) < u and 0 < pstar < 1.
C3_NoArbitrageWhenReturning ==
    (pc = "bp_ret" /\ IsValid(FrameParams(fr))) => NoArbitrage(fr)

\* C3, second sentence, on the inputs the contract allows (v > 0, T > 0, spot > 0, strike > 0,
\* n >= 1): the ordering holds for the values computed at the top of binomialPricer.
C3_NoArbitrageOnValidInputs ==
    (pc \in {"bp_loop", "bp_ret"} /\ IsValid(FrameParams(fr)) /\ fr.a.n >= 1) => NoArbitrage(fr)

\* the price the convergence cell must print for the j-th entry of N
DriverPrice(glb, j) ==
    IF glb.N[j] > MaxN THEN binomialPricer_recorded(j)
    ELSE binomialPricer(DriverArgs(glb, glb.N[j])).val

\* C4: while the convergence cell runs, the prices printed so far are those of the entries of N
\* processed so far, one each, in the order of N: after k entries the output is
\* binomialPricer(N[0]), ..., binomialPricer(N[k-1]), whatever N repeats or reorders.
C4_PricesInInputOrder ==
    DriverRunning =>
        /\ Len(out) = it
        /\ it <= Len(g.N)
        /\ \A j \in 1 .. Len(out) : out[j] = DriverPrice(g, j)

\* C4 witness: the loop has processed a schedule that repeats a step count
C4_Witness ==
    /\ pc = "drv_loop"
    /\ it = Len(g.N)
    /\ Len(g.N) >= 2
    /\ g.N[1] = g.N[2]
    /\ g.N[1] >= 1
    /\ Len(out) = Len(g.N)

\* C5: no step of the convergence cell changes the parameter set or the analytic price callPrc.
C5_DriverLeavesGlobals ==
    [][(DriverRunning \/ DriverRunning')
          => (ParamsOf(g') = ParamsOf(g) /\ g'.callPrc = g.callPrc)]_vars

\* C6: a pricing call returns what the remembered earlier call with the same pricing arguments
\* returned, whatever cells and calls ran in between and whatever verbose was in either call.
C6_SameArgumentsSamePrice ==
    (pc \in {"bp_ret", "fn_ret"} /\ memo.fn = fr.fn /\ memo.key = KeyOf(fr)) => ret = memo.ret

\* C6 witness: binomialPricer returns for the second time on the same pricing arguments, with the
\* other value of verbose, after the analytic cell has changed the global spot, which now differs
\* from the argument S
C6_Witness ==
    /\ pc = "bp_ret"
    /\ memo.fn = "binomialPricer"
    /\ memo.key = KeyOf(fr)
    /\ memo.verbose # fr.a.verbose
    /\ memo.gspot # g.spot
    /\ g.spot # fr.a.S
    /\ ret = memo.ret

\* e^(-div * tau)
DividendFactor(p) == NpExp(FMul(FNeg(p.div), p.expiry))

\* C7: for valid parameters bsmCallDelta returns a value in [0, e^(-div*tau)] and bsmPutDelta a
\* value in [-e^(-div*tau), 0].
C7_DeltaBounds ==
    (pc = "fn_ret" /\ IsValid(fr.args)) =>
        /\ fr.fn = "bsmCallDelta" =>
              FLe(Fin(0), ret.val) /\ FLe(ret.val, DividendFactor(fr.args))
        /\ fr.fn = "bsmPutDelta" =>
              FLe(FNeg(DividendFactor(fr.args)), ret.val) /\ FLe(ret.val, Fin(0))

\* the step counts the convergence claim names, and where each stands in NotebookN
ClaimSteps == <<10, 25, 50, 100, 200, 500>>
PosOf(n) == CHOOSE j \in 1 .. Len(NotebookN) : NotebookN[j] = n
ClaimPos(c) == PosOf(ClaimSteps[c])

\* |price - analytic price|
Err(x) == Abs(x.v - RecordedCallPrc)

\* the convergence cell is running on the notebook's own step counts and data
RecordedRun == pc = "drv_loop" /\ "N" \in DOMAIN g /\ g.N = NotebookN

\* C8 as claimed: along 10, 25, 50, 100, 200, 500 the error never grows, and at n = 500 the price
\* is within 0.01 of the analytic price.
C8_ErrorNeverGrows ==
    RecordedRun =>
        /\ \A c \in 1 .. (Len(ClaimSteps) - 1) :
              ClaimPos(c + 1) <= Len(out) => Err(out[ClaimPos(c + 1)]) <= Err(out[ClaimPos(c)])
        /\ ClaimPos(Len(ClaimSteps)) <= Len(out) => Err(out[ClaimPos(Len(ClaimSteps))]) <= 10000

\* C8 amended: along 10, 25, 50, 100, 200 the error never grows, and at n = 500 the price is
\* within 0.01 of the analytic price (the error at 500 is above the error at 200).
C8_ErrorTrendsDown ==
    RecordedRun =>
        /\ \A c \in 1 .. (Len(ClaimSteps) - 2) :
              ClaimPos(c + 1) <= Len(out) => Err(out[ClaimPos(c + 1)]) <= Err(out[ClaimPos(c)])
        /\ ClaimPos(Len(ClaimSteps)) <= Len(out) =>
              /\ Err(out[ClaimPos(Len(ClaimSteps))]) <= 10000
              /\ Err(out[ClaimPos(Len(ClaimSteps))]) > Err(out[ClaimPos(Len(ClaimSteps) - 1)])

\* C8 witness: the recorded run has printed all its prices
C8_Witness == RecordedRun /\ Len(out) = Len(NotebookN) /\ it = Len(NotebookN)

\* sum over the first m terminal nodes of payoff(S u^j d^(n-j), K) * pmf(j; n, pstar)
RECURSIVE NodeSum(_, _)
NodeSum(f, m) ==
    IF m = 0 THEN Fin(0)
    ELSE LET j  == m - 1
             sT == FMul(FMul(f.a.S, FPow(f.u, j)), FPow(f.d, f.a.n - j))
         IN  FAdd(NodeSum(f, j),
                  FMul(ApplyPayoff(f.a.payoff, sT, f.a.K), BinomPmf(j, f.a.n, f.pstar)))

\* C9: for n >= 1 the loop visits the indices 0..n once each, in order, and stops; after the
\* iteration for index i the accumulator is the sum of payoff * pmf over the nodes 0..i, the payoff
\* having been called once per node on (S u^j d^(n-j), K); the discount exp(-r T) is applied once,
\* after the last node, and the returned price is exp(-r T) times the sum over all n + 1 nodes.
C9_TerminalSum ==
    (pc \in {"bp_loop", "bp_ret"} /\ fr.a.n >= 1) =>
        /\ fr.iter <= fr.a.n + 1
        /\ fr.visited = [j \in 1 .. fr.iter |-> j - 1]
        /\ fr.poArgs = [j \in 1 .. fr.iter |->
               <<FMul(FMul(fr.a.S, FPow(fr.u, j - 1)), FPow(fr.d, fr.a.n - (j - 1))), fr.a.K>>]
        /\ pc = "bp_loop" => fr.discounts = 0 /\ fr.price = NodeSum(fr, fr.iter)
        /\ pc = "bp_ret" =>
              /\ fr.iter = fr.a.n + 1
              /\ fr.discounts = 1
              /\ ret = Return(FMul(NodeSum(fr, fr.a.n + 1),
                                    NpExp(FMul(FNeg(fr.a.r), fr.a.T))))

\* C9 witness: a call on valid data with the largest step count has returned a positive price
C9_Witness ==
    /\ pc = "bp_ret"
    /\ fr.a.n = MaxN
    /\ IsValid(FrameParams(fr))
    /\ Len(fr.visited) = MaxN + 1
    /\ FLt(Fin(0), ret.val)

GreekFns == {"bsmCallDelta", "bsmPutDelta"}

\* C10 as claimed: price and Greeks use the same d1, which is computed once per pricing call and
\* handed to every Greek computation: a Greek function does not evaluate the d1 formula itself.
C10_D1ComputedOnceAndPassed ==
    pc = "fn_ret" =>
        /\ fr.d1 = blackScholesCall_d1(fr.args)
        /\ fr.fn \in GreekFns => fr.d1Evals = 0

\* C10 amended: for every parameter tuple the d1 inside blackScholesCall, bsmCallDelta and
\* bsmPutDelta is the same value; each of the three functions evaluates it itself, once per call.
C10_SameD1Recomputed ==
    pc = "fn_ret" =>
        /\ fr.d1 = blackScholesCall_d1(fr.args)
        /\ fr.d1 = bsmCallDelta_d1(fr.args)
        /\ fr.d1 = bsmPutDelta_d1(fr.args)
        /\ fr.d1Evals = 1

\* C10 witness: bsmPutDelta has returned on dividend-paying data
C10_Witness ==
    /\ pc = "fn_ret"
    /\ fr.fn = "bsmPutDelta"
    /\ fr.args = DivData
    /\ IsFin(fr.d1)

====
